---- MODULE Spec2Model ----
(***************************************************************************)
(* CBP501 phase-III trial monitor (main.py, cbp501_scraper.py,             *)
(* cbp501_notifier.py): one invocation of main() loads its configuration,  *)
(* bumps the persisted execution counter, scrapes the search URLs,         *)
(* classifies what it found, sends at most one Discord notification and    *)
(* persists the status.                                                    *)
(*                                                                         *)
(* Text is modelled by strings.  The Japanese status tokens are romanised: *)
(* "hakken" is the token for found and "mihakken" the token for not found. *)
(***************************************************************************)
EXTENDS Integers, Sequences, FiniteSets, TLC

\* ---------------------------------------------------------------- bounds
MaxRuns == 3          \* invocations per behaviour
MaxInterval == 2      \* largest STATUS_REPORT_INTERVAL the environment sets
NumProcs == 2         \* invocations that may exist at the same time

\* ------------------------------------------------------ program constants
max_retries == 3      \* _make_request / _send_webhook default argument
RateLimitWait == 5    \* time.sleep(5) after HTTP 429
NumSources == 2       \* len(self.search_urls)
MinTextLen == 20      \* len(text) > 20 for text elements

Procs == 1..NumProcs
Sources == 1..NumSources

Absent == "<no file>"           \* os.path.exists(...) is false
None == "<None>"                \* os.getenv(...) returned None / unset local

\* ------------------------------------------------------------ characters
Whitespace == {" ", "\n"}
Digits == "0123456789"
UpperCase == "ABCDEFGHIJKLMNOPQRSTUVWXYZ"
LowerCase == "abcdefghijklmnopqrstuvwxyz"

CharAt(s, i) == SubSeq(s, i, i)
DigitChars == {CharAt(Digits, i) : i \in 1..10}

\* the two status tokens main() writes (main.py:110), romanised
FOUND == "hakken"
NOT_FOUND == "mihakken"

\* str.strip(): drop leading and trailing whitespace
RECURSIVE LStrip(_)
LStrip(s) ==
  IF Len(s) > 0 /\ CharAt(s, 1) \in Whitespace THEN LStrip(Tail(s)) ELSE s

RECURSIVE RStrip(_)
RStrip(s) ==
  IF Len(s) > 0 /\ CharAt(s, Len(s)) \in Whitespace
    THEN RStrip(SubSeq(s, 1, Len(s) - 1))
    ELSE s

Strip(s) == RStrip(LStrip(s))

\* str.lower()
LowerChar(c) ==
  IF \E i \in 1..26 : CharAt(UpperCase, i) = c
    THEN CharAt(LowerCase, CHOOSE i \in 1..26 : CharAt(UpperCase, i) = c)
    ELSE c

RECURSIVE Lower(_)
Lower(s) ==
  IF Len(s) = 0 THEN "" ELSE LowerChar(CharAt(s, 1)) \o Lower(Tail(s))

\* pattern in text (substring test)
In(pattern, text) ==
  \E i \in 1..(Len(text) - Len(pattern) + 1) :
     SubSeq(text, i, i + Len(pattern) - 1) = pattern

\* str(n) for n >= 0: the decimal digits, most significant first
RECURSIVE Str(_)
Str(n) ==
  IF n < 10 THEN CharAt(Digits, n + 1)
            ELSE Str(n \div 10) \o CharAt(Digits, (n % 10) + 1)

\* int(s) raises ValueError unless s (stripped) is a non-empty digit string
IntRaises(s) ==
  LET t == Strip(s)
  IN  Len(t) = 0 \/ \E i \in 1..Len(t) : CharAt(t, i) \notin DigitChars

DigitVal(c) == CHOOSE d \in 0..9 : CharAt(Digits, d + 1) = c

RECURSIVE DigitsVal(_)
DigitsVal(t) ==
  IF Len(t) = 0 THEN 0
  ELSE 10 * DigitsVal(SubSeq(t, 1, Len(t) - 1)) + DigitVal(CharAt(t, Len(t)))

ParseInt(s) == DigitsVal(Strip(s))

\* ------------------------------------------------------- persisted state
\* mutant: the counter is read from a file that never exists
load_execution_counter_wrong_file(file) == 0

\* load_execution_counter(): 0 when the file is missing or does not parse
load_execution_counter(file) ==
  IF file = Absent THEN 0
  ELSE IF IntRaises(file) THEN 0
  ELSE ParseInt(file)

\* mutant: the value loaded, not the incremented one, is written back
save_execution_counter_stale(counter) == Str(counter - 1)

\* save_execution_counter(counter): the file then holds str(counter)
save_execution_counter(counter) == Str(counter)

\* mutant: the existence test fails, the default is returned every time
load_last_found_status_default(file) == NOT_FOUND

\* load_last_found_status(): the stripped file content, NOT_FOUND if missing
load_last_found_status(file) ==
  IF file = Absent THEN NOT_FOUND ELSE Strip(file)

\* save_cbp501_status(status): the file then holds status
save_cbp501_status(status) == status

\* ---------------------------------------------------------------- pages
\* A parsed page is the sequence of its elements in document order.  An "a"
\* element has its link text and href; a "p" element (p/div/span/li) has its
\* text and the href of its related link ("" when it has none).
base_url == "https://ema"

Element(tag, text, href) == [tag |-> tag, text |-> text, href |-> href]

\* the pages the two search URLs may answer with
NewsPages ==
  { <<Element("a", "EMA news update", "/en/news/1")>>,
    <<Element("a", "CBP-501 study results", "/en/news/2")>>,
    <<Element("a", "CBP501 Phase III trial started", "/en/news/3")>>,
    <<Element("p", "CBP501 launch", "/en/news/5")>> }

TrialPages ==
  { <<Element("a", "Phase 3 enrollment opens", "/en/news/6")>>,
    <<Element("p", "Pivotal data for cbp 501 expected", "")>>,
    <<Element("a", "CBP501 confirmatory study", "/en/news/7"),
      Element("a", "Cbp 501 phase 3 begins", "https://x.org/8")>> }

PagesOf == <<NewsPages, TrialPages>>

Pages == NewsPages \cup TrialPages

\* urljoin(base_url, href) for the hrefs above: absolute hrefs win
urljoin(base, href) ==
  IF In("://", href) THEN href ELSE base \o href

\* _contains_cbp501(text)
cbp501_patterns ==
  <<"cbp501", "cbp-501", "cbp 501", "cbp501", "cb-p501", "cb p501">>

\* mutant: the text is not lower-cased before the patterns are searched
contains_cbp501_case_sensitive(text) ==
  IF Len(text) = 0 THEN FALSE
  ELSE \E i \in 1..Len(cbp501_patterns) : In(cbp501_patterns[i], text)

\* mutant: the truthiness of the text is returned, the patterns are not searched
contains_cbp501_any_text(text) == Len(text) # 0

contains_cbp501(text) ==
  IF Len(text) = 0 THEN FALSE
  ELSE \E i \in 1..Len(cbp501_patterns) : In(cbp501_patterns[i], Lower(text))

\* the keyword lists of _filter_phase3_items; the Japanese keywords are left
\* out, no page text of the model contains a Japanese character
phase3_keywords ==
  <<"phase 3", "phase iii", "phase three", "phase-3", "phase-iii",
    "phaseiii", "p3", "piii", "pivotal", "registration", "confirmatory">>

trial_start_keywords ==
  <<"start", "initiat", "begin", "launch", "commence",
    "first patient", "enrollment", "recruit">>

\* text[:100] + ('...' if len(text) > 100 else '')
TitleOf(text) ==
  IF Len(text) > 100 THEN SubSeq(text, 1, 100) \o "..." ELSE text

\* _find_cbp501_content(soup, source_url): first the matching links, then
\* the matching text elements longer than MinTextLen
LinkItem(e, source) ==
  [type |-> "link", title |-> e.text, url |-> urljoin(base_url, e.href),
   source |-> source, content |-> e.text]

TextItem(e, source) ==
  [type |-> "text", title |-> TitleOf(e.text),
   url |-> IF e.href # "" THEN urljoin(base_url, e.href) ELSE "",
   source |-> source, content |-> e.text]

RECURSIVE LinkItems(_, _)
LinkItems(soup, source) ==
  IF soup = <<>> THEN <<>>
  ELSE LET e == Head(soup)
       IN  (IF e.tag = "a" /\ e.href # "" /\ contains_cbp501(e.text)
              THEN <<LinkItem(e, source)>> ELSE <<>>)
           \o LinkItems(Tail(soup), source)

RECURSIVE TextItems(_, _)
TextItems(soup, source) ==
  IF soup = <<>> THEN <<>>
  ELSE LET e == Head(soup)
       IN  (IF e.tag = "p" /\ contains_cbp501(e.text) /\ Len(e.text) > MinTextLen
              THEN <<TextItem(e, source)>> ELSE <<>>)
           \o TextItems(Tail(soup), source)

find_cbp501_content(soup, source) ==
  LinkItems(soup, source) \o TextItems(soup, source)

\* _filter_phase3_items(items)
has_phase3(item) ==
  \E i \in 1..Len(phase3_keywords) : In(phase3_keywords[i], Lower(item.content))

has_trial_start(item) ==
  \E i \in 1..Len(trial_start_keywords) :
     In(trial_start_keywords[i], Lower(item.content))

KeywordsIn(keywords, content_lower) ==
  SelectSeq(keywords, LAMBDA kw : In(kw, content_lower))

\* mutant: the confidence is high as soon as one keyword list matches
Classified_high_on_either(item) ==
  [type |-> item.type, title |-> item.title, url |-> item.url,
   source |-> item.source, content |-> item.content,
   phase3_keywords |-> KeywordsIn(phase3_keywords, Lower(item.content)),
   start_keywords |-> KeywordsIn(trial_start_keywords, Lower(item.content)),
   confidence |-> IF has_phase3(item) \/ has_trial_start(item)
                    THEN "high" ELSE "medium"]

Classified(item) ==
  [type |-> item.type, title |-> item.title, url |-> item.url,
   source |-> item.source, content |-> item.content,
   phase3_keywords |-> KeywordsIn(phase3_keywords, Lower(item.content)),
   start_keywords |-> KeywordsIn(trial_start_keywords, Lower(item.content)),
   confidence |-> IF has_phase3(item) /\ has_trial_start(item)
                    THEN "high" ELSE "medium"]

RECURSIVE filter_phase3_items(_)
filter_phase3_items(items) ==
  IF items = <<>> THEN <<>>
  ELSE (IF has_phase3(Head(items)) \/ has_trial_start(Head(items))
          THEN <<Classified(Head(items))>> ELSE <<>>)
       \o filter_phase3_items(Tail(items))

\* mutant: any collected item makes the result found
search_result_found_on_any_item(found_items) ==
  IF found_items # <<>>
    THEN [found |-> TRUE, details |-> filter_phase3_items(found_items)]
    ELSE [found |-> FALSE, details |-> <<>>]

\* search_cbp501_phase3(), lines 79-94: (found, details) from found_items
search_result(found_items) ==
  IF found_items # <<>>
    THEN LET phase3_items == filter_phase3_items(found_items)
         IN  IF phase3_items # <<>>
               THEN [found |-> TRUE, details |-> phase3_items]
               ELSE [found |-> FALSE, details |-> found_items]
    ELSE [found |-> FALSE, details |-> <<>>]

search_urls == <<base_url \o "/en/news", base_url \o "/en/clinical-trials">>

\* what _find_cbp501_content and the analysis of search_cbp501_phase3 give
\* for the pages of the model, tabulated once
ItemsOf ==
  [page \in Pages \cup {<<>>} |->
     [s \in Sources |-> find_cbp501_content(page, search_urls[s])]]

FoundItemLists ==
  {ItemsOf[a][1] \o ItemsOf[b][2] : a \in Pages \cup {<<>>}, b \in Pages \cup {<<>>}}

SearchResultOf == [items \in FoundItemLists |-> search_result(items)]

\* ------------------------------------------------------------- notifier
\* max(cbp501_details, key=lambda x: x.get('confidence', 'low') == 'high'):
\* the first item whose key is the largest (True > False)
IsHigh(item) == "confidence" \in DOMAIN item /\ item.confidence = "high"

\* mutant: the key is the same for every item, max returns the first
best_item_first(details) == details[1]

best_item(details) ==
  IF \E i \in 1..Len(details) : IsHigh(details[i])
    THEN details[CHOOSE i \in 1..Len(details) :
                   /\ IsHigh(details[i])
                   /\ \A j \in 1..(i - 1) : ~IsHigh(details[j])]
    ELSE details[1]

\* mutant: the Discovery payload has no "content" key
found_payload_silent(details) ==
  [kind |-> "Discovery",
   content |-> None,
   title |-> best_item(details).title,
   url |-> IF best_item(details).url # "" THEN best_item(details).url
           ELSE best_item(details).source,
   count |-> Len(details)]

\* the payloads handed to _send_webhook; kind names the building method,
\* content is None when the payload has no "content" key
found_payload(details) ==
  [kind |-> "Discovery",
   content |-> "@everyone CBP501 phase III found",
   title |-> best_item(details).title,
   url |-> IF best_item(details).url # "" THEN best_item(details).url
           ELSE best_item(details).source,
   count |-> Len(details)]

status_report_payload(found, details, execution_count) ==
  [kind |-> "PeriodicReport",
   content |-> None,
   title |-> IF found THEN "periodic report (still found)"
             ELSE "periodic report",
   url |-> "",
   count |-> execution_count]

status_change_payload(now_found, execution_count) ==
  [kind |-> "StatusChange",
   content |-> None,
   title |-> IF now_found THEN "not found -> found" ELSE "found -> not found",
   url |-> "",
   count |-> execution_count]

\* mutant: the error payload's content mentions nobody
error_payload_no_mention(execution_count) ==
  [kind |-> "Error",
   content |-> "CBP501 monitor error",
   title |-> "monitor error",
   url |-> "",
   count |-> execution_count]

error_payload(execution_count) ==
  [kind |-> "Error",
   content |-> "@here CBP501 monitor error",
   title |-> "monitor error",
   url |-> "",
   count |-> execution_count]

\* test_connection(): a content line without a mention
connection_test_payload ==
  [kind |-> "ConnectionTest",
   content |-> "CBP501 monitor is working",
   title |-> "connection test",
   url |-> "",
   count |-> 0]

\* the broadcast marker of a payload: a mention of everyone / here
Broadcast(payload) ==
  payload.content # None
  /\ (In("@everyone", payload.content) \/ In("@here", payload.content))

\* building the Discovery payload raises on an empty list (max of nothing)
found_payload_raises(details) == details = <<>>

\* the responses a POST may get: an HTTP status, or a RequestException
Responses == {"204", "429", "400", "500", "RequestException"}

\* mutant: a 429 is followed by the backoff wait of the network errors
send_webhook_iter_backoff_on_429(attempt, resp) ==
  CASE resp = "204" ->
         [sleep |-> <<>>, returned |-> TRUE, result |-> TRUE]
    [] resp \in {"429", "RequestException"} ->
         IF attempt < max_retries - 1
           THEN [sleep |-> <<2 ^ attempt>>, returned |-> FALSE, result |-> FALSE]
           ELSE [sleep |-> <<>>, returned |-> TRUE, result |-> FALSE]
    [] OTHER ->
         [sleep |-> <<>>, returned |-> TRUE, result |-> FALSE]

\* mutant: every status other than 204 is rate-limit-retried
send_webhook_iter_retry_any_status(attempt, resp) ==
  CASE resp = "204" ->
         [sleep |-> <<>>, returned |-> TRUE, result |-> TRUE]
    [] resp = "RequestException" ->
         IF attempt < max_retries - 1
           THEN [sleep |-> <<2 ^ attempt>>, returned |-> FALSE, result |-> FALSE]
           ELSE [sleep |-> <<>>, returned |-> TRUE, result |-> FALSE]
    [] OTHER ->
         [sleep |-> <<RateLimitWait>>,
          returned |-> ~(attempt + 1 < max_retries), result |-> FALSE]

\* mutant: the wait after a network error does not grow
send_webhook_iter_constant_backoff(attempt, resp) ==
  CASE resp = "204" ->
         [sleep |-> <<>>, returned |-> TRUE, result |-> TRUE]
    [] resp = "429" ->
         [sleep |-> <<RateLimitWait>>,
          returned |-> ~(attempt + 1 < max_retries), result |-> FALSE]
    [] resp = "RequestException" ->
         IF attempt < max_retries - 1
           THEN [sleep |-> <<1>>, returned |-> FALSE, result |-> FALSE]
           ELSE [sleep |-> <<>>, returned |-> TRUE, result |-> FALSE]
    [] OTHER ->
         [sleep |-> <<>>, returned |-> TRUE, result |-> FALSE]

\* mutant: a rate-limited send gives up one attempt early
send_webhook_iter_gives_up_early(attempt, resp) ==
  CASE resp = "204" ->
         [sleep |-> <<>>, returned |-> TRUE, result |-> TRUE]
    [] resp = "429" ->
         [sleep |-> <<RateLimitWait>>,
          returned |-> ~(attempt + 1 < max_retries - 1), result |-> FALSE]
    [] resp = "RequestException" ->
         IF attempt < max_retries - 1
           THEN [sleep |-> <<2 ^ attempt>>, returned |-> FALSE, result |-> FALSE]
           ELSE [sleep |-> <<>>, returned |-> TRUE, result |-> FALSE]
    [] OTHER ->
         [sleep |-> <<>>, returned |-> TRUE, result |-> FALSE]

\* one iteration of the loop of _send_webhook: what iteration `attempt`
\* (0-based) does on the response resp of its POST
send_webhook_iter(attempt, resp) ==
  CASE resp = "204" ->
         [sleep |-> <<>>, returned |-> TRUE, result |-> TRUE]
    [] resp = "429" ->
         [sleep |-> <<RateLimitWait>>,
          returned |-> ~(attempt + 1 < max_retries), result |-> FALSE]
    [] resp = "RequestException" ->
         IF attempt < max_retries - 1
           THEN [sleep |-> <<2 ^ attempt>>, returned |-> FALSE, result |-> FALSE]
           ELSE [sleep |-> <<>>, returned |-> TRUE, result |-> FALSE]
    [] OTHER ->
         [sleep |-> <<>>, returned |-> TRUE, result |-> FALSE]

\* mutant: the loop sleeps after the last failure too, then raises
make_request_iter_sleeps_before_raise(attempt) ==
  [sleep |-> <<2 ^ attempt>>, raised |-> ~(attempt < max_retries - 1)]

\* one iteration of the loop of _make_request on a failed GET
make_request_iter(attempt) ==
  IF attempt < max_retries - 1
    THEN [sleep |-> <<2 ^ attempt>>, raised |-> FALSE]
    ELSE [sleep |-> <<>>, raised |-> TRUE]

\* ------------------------------------------------------------ main(): selection
current_status_of(found) == IF found THEN FOUND ELSE NOT_FOUND

\* mutant: only a new find counts as a change
status_changed_new_find_only(current_status, last_status) ==
  current_status = FOUND /\ last_status = NOT_FOUND

\* mutant: every run sees a change of status
status_changed_always(current_status, last_status) == TRUE

status_changed_of(current_status, last_status) == current_status # last_status

\* mutant: the cadence is taken from the counter before its increment
should_report_before_increment(execution_counter, interval) ==
  (execution_counter - 1) % interval = 0

should_report_of(execution_counter, interval) ==
  execution_counter % interval = 0

\* mutant: the periodic report is tested before the status change
select_notification_report_first(found, status_changed, should_report) ==
  IF should_report THEN "report"
  ELSE IF status_changed THEN (IF found THEN "found" ELSE "change")
  ELSE "none"

\* main.py:116-138: which notifier method the run calls
\*   "found" = send_cbp501_found_notification, "change" =
\*   send_cbp501_status_change, "report" = send_status_report, "none"
select_notification(found, status_changed, should_report) ==
  IF found
    THEN IF status_changed THEN "found"
         ELSE IF should_report THEN "report" ELSE "none"
    ELSE IF status_changed THEN "change"
         ELSE IF should_report THEN "report" ELSE "none"

\* ------------------------------------------------------------------ state
VARIABLES
  counter_file,   \* content of execution_counter.txt, or Absent
  status_file,    \* content of cbp501_status.txt, or Absent
  runs,           \* invocations started so far
  proc,           \* the locals of each invocation of main()
  wh,             \* one call of _send_webhook on its own: its loop state
  cl,             \* one element run through the classifier on its own
  ex,             \* one call of EMAScraper._extract_news_items on its own
  rq              \* one call of _make_request on its own: its loop state

vars == <<counter_file, status_file, runs, proc, wh, cl, ex, rq>>

\* the environment an invocation may find
WebhookEnv == {None, "", "https://discord/hook"}
IntervalEnv == {None, "abc"} \cup {Str(k) : k \in 1..MaxInterval}
InitCounterFiles == {Absent, "x", "7\n"}
InitStatusFiles == {Absent, "x", "hakken\n"}

Idle ==
  [pc |-> "idle",
   status_report_interval |-> 0,
   execution_counter |-> 0,
   last_status |-> None,
   source |-> 1,              \* index into search_urls
   attempt |-> 0,             \* loop variable of _make_request
   found_items |-> <<>>,
   requests |-> [s \in Sources |-> 0],   \* GETs made per source
   exhausted |-> {},          \* sources whose fetch raised
   cbp501_found |-> FALSE,
   cbp501_details |-> <<>>,
   current_status |-> None,
   status_changed |-> FALSE,
   should_report |-> FALSE,
   decided |-> FALSE,         \* lines 110-114 have run
   sent |-> <<>>,             \* payloads handed to _send_webhook
   post_attempt |-> 0,        \* loop variable of _send_webhook
   send_results |-> <<>>,     \* return values of the send_* calls
   in_handler |-> FALSE,      \* inside the except block of main()
   exit_code |-> 0,
   config_ok |-> FALSE,       \* load_environment() returned
   webhook |-> None,          \* DISCORD_WEBHOOK_URL of the invocation
   first_run |-> FALSE,       \* no state file existed at the start
   counter_at_start |-> 0,    \* the counter the invocation found
   status_at_start |-> Absent]

\* the loop state of a call of _send_webhook(payload)
Call(payload) ==
  [pc |-> "post", payload |-> payload, attempt |-> 0,
   responses |-> <<>>, sleeps |-> <<>>, result |-> FALSE]

NoCall == [Call(None) EXCEPT !.pc = "idle"]

\* the state of the classifier run on one element: the fragments its text
\* was written from, the element, and what the scraper made of it
Text(tag, variant, phase, start, text) ==
  [pc |-> "text", tag |-> tag, variant |-> variant, phase |-> phase,
   start |-> start, text |-> text,
   contains |-> FALSE, items |-> <<>>, found |-> FALSE, details |-> <<>>]

NoText == [Text("a", "", "", "", "") EXCEPT !.pc = "idle"]

\* the state of a call of _extract_news_items(soup): the document, the
\* items collected so far and the strategies whose body has run
Document(doc) ==
  [pc |-> "links", doc |-> doc, news_items |-> <<>>, ran |-> <<>>]

NoDocument == [Document(<<>>) EXCEPT !.pc = "idle"]

\* the loop state of a call of _make_request(url)
Fetch(url) ==
  [pc |-> "get", url |-> url, attempt |-> 0,
   responses |-> <<>>, sleeps |-> <<>>, response |-> None]

NoFetch == [Fetch(None) EXCEPT !.pc = "idle"]

\* the value the program reads from a counter file
CounterValue(file) ==
  IF file = Absent \/ IntRaises(file) THEN 0 ELSE ParseInt(file)

Init ==
  /\ counter_file \in InitCounterFiles
  /\ status_file \in InitStatusFiles
  /\ runs = 0
  /\ proc = [p \in Procs |-> Idle]
  /\ wh = NoCall
  /\ cl = NoText
  /\ ex = NoDocument
  /\ rq = NoFetch

Set(p, rec) == proc' = [proc EXCEPT ![p] = rec]

\* load_environment(): the webhook URL is required, the interval defaults
\* to '4' and must parse; any failure ends the process with exit code 1
DefaultInterval == "4"

\* mutant: only an unset webhook URL is refused, an empty one passes
load_environment_fails_unset_only(webhook, interval) ==
  \/ webhook = None
  \/ IntRaises(IF interval = None THEN DefaultInterval ELSE interval)

load_environment_fails(webhook, interval) ==
  \/ webhook = None
  \/ webhook = ""
  \/ IntRaises(IF interval = None THEN DefaultInterval ELSE interval)

load_environment(webhook, interval) ==
  ParseInt(IF interval = None THEN DefaultInterval ELSE interval)

\* main.py:84-89: a new invocation starts and loads its configuration
Start(p) ==
  /\ proc[p].pc \in {"idle", "exit"}
  /\ runs < MaxRuns
  /\ runs' = runs + 1
  /\ \E webhook \in WebhookEnv, interval \in IntervalEnv :
       LET fresh == [Idle EXCEPT
                       !.webhook = webhook,
                       !.first_run = (counter_file = Absent /\ status_file = Absent),
                       !.counter_at_start = CounterValue(counter_file),
                       !.status_at_start = status_file]
       IN  IF load_environment_fails(webhook, interval)
             THEN Set(p, [fresh EXCEPT !.pc = "exit", !.exit_code = 1])
             ELSE Set(p, [fresh EXCEPT
                            !.pc = "load_counter",
                            !.config_ok = TRUE,
                            !.status_report_interval =
                               load_environment(webhook, interval)])
  /\ UNCHANGED <<counter_file, status_file, wh, cl, ex, rq>>

\* main.py:92: execution_counter = load_execution_counter() + 1
LoadCounter(p) ==
  /\ proc[p].pc = "load_counter"
  /\ Set(p, [proc[p] EXCEPT
               !.pc = "save_counter",
               !.execution_counter = load_execution_counter(counter_file) + 1])
  /\ UNCHANGED <<counter_file, status_file, runs, wh, cl, ex, rq>>

\* mutant: the save re-reads the file and increments what it finds
SaveCounter_increments_file(p) ==
  /\ proc[p].pc = "save_counter"
  /\ counter_file' =
       save_execution_counter(load_execution_counter(counter_file) + 1)
  /\ Set(p, [proc[p] EXCEPT !.pc = "load_status"])
  /\ UNCHANGED <<status_file, runs, wh, cl, ex, rq>>

\* main.py:93: save_execution_counter(execution_counter)
SaveCounter(p) ==
  /\ proc[p].pc = "save_counter"
  /\ counter_file' = save_execution_counter(proc[p].execution_counter)
  /\ Set(p, [proc[p] EXCEPT !.pc = "load_status"])
  /\ UNCHANGED <<status_file, runs, wh, cl, ex, rq>>

\* main.py:96: last_status = load_last_found_status()
LoadStatus(p) ==
  /\ proc[p].pc = "load_status"
  /\ Set(p, [proc[p] EXCEPT
               !.pc = "new_scraper",
               !.last_status = load_last_found_status(status_file)])
  /\ UNCHANGED <<counter_file, status_file, runs, wh, cl, ex, rq>>

\* main.py:104-108: the scraper is built and the search starts
NewScraper(p) ==
  /\ proc[p].pc = "new_scraper"
  /\ Set(p, [proc[p] EXCEPT !.pc = "search"])
  /\ UNCHANGED <<counter_file, status_file, runs, wh, cl, ex, rq>>

\* main.py:102-108, 147: an exception escapes the scraper
ScraperRaises(p) ==
  /\ proc[p].pc = "new_scraper"
  /\ Set(p, [proc[p] EXCEPT !.pc = "except"])
  /\ UNCHANGED <<counter_file, status_file, runs, wh, cl, ex, rq>>

\* where the search loop goes after it is done with a source
AfterSource(rec) ==
  IF rec.source < NumSources
    THEN [rec EXCEPT !.source = rec.source + 1, !.attempt = 0]
    ELSE [rec EXCEPT !.source = rec.source + 1, !.attempt = 0, !.pc = "decide"]

\* search_cbp501_phase3(), lines 60-77, one GET of _make_request that
\* answers with a page: its items are appended
RequestOk(p) ==
  /\ proc[p].pc = "search"
  /\ \E page \in PagesOf[proc[p].source] :
       LET r == proc[p]
           items == ItemsOf[page][r.source]
       IN  Set(p, AfterSource([r EXCEPT
                                 !.requests[r.source] = @ + 1,
                                 !.found_items = @ \o items]))
  /\ UNCHANGED <<counter_file, status_file, runs, wh, cl, ex, rq>>

\* mutant: the search loop does not catch the exception of _make_request
fetch_error_propagates(r) ==
  [r EXCEPT !.exhausted = @ \cup {r.source}, !.pc = "except"]

\* ... one GET that raises RequestException (network error, timeout, HTTP
\* status): retried after a backoff; the last one raises, and the search
\* loop catches it and continues with the next source
fetch_error_handled(r) ==
  AfterSource([r EXCEPT !.exhausted = @ \cup {r.source}])

RequestFails(p) ==
  /\ proc[p].pc = "search"
  /\ LET r == [proc[p] EXCEPT !.requests[proc[p].source] = @ + 1]
     IN  IF make_request_iter(r.attempt).raised
           THEN Set(p, fetch_error_handled(r))
           ELSE Set(p, [r EXCEPT !.attempt = @ + 1])
  /\ UNCHANGED <<counter_file, status_file, runs, wh, cl, ex, rq>>

\* mutant: the handler has no sys.exit(1), the run ends like a normal one
Returned_handler_falls_through(rec, result) ==
  IF rec.in_handler
    THEN [rec EXCEPT !.send_results = Append(@, result),
                     !.pc = "exit", !.exit_code = 0]
    ELSE [rec EXCEPT !.send_results = Append(@, result), !.pc = "save_status"]

\* mutant: a failed delivery ends the run with exit code 1
Returned_delivery_failure_fatal(rec, result) ==
  IF rec.in_handler \/ ~result
    THEN [rec EXCEPT !.send_results = Append(@, result),
                     !.pc = "exit", !.exit_code = 1]
    ELSE [rec EXCEPT !.send_results = Append(@, result), !.pc = "save_status"]

\* mutant: after a failed delivery the run ends without saving the status
Returned_failure_skips_save(rec, result) ==
  IF rec.in_handler
    THEN [rec EXCEPT !.send_results = Append(@, result),
                     !.pc = "exit", !.exit_code = 1]
    ELSE IF result
      THEN [rec EXCEPT !.send_results = Append(@, result), !.pc = "save_status"]
      ELSE [rec EXCEPT !.send_results = Append(@, result),
                       !.pc = "exit", !.exit_code = 0]

\* the send_* method returned: the run goes on (or, in the handler, exits)
Returned(rec, result) ==
  IF rec.in_handler
    THEN [rec EXCEPT !.send_results = Append(@, result),
                     !.pc = "exit", !.exit_code = 1]
    ELSE [rec EXCEPT !.send_results = Append(@, result), !.pc = "save_status"]

\* the send_* method built its payload and calls _send_webhook
Submit(rec, payload) ==
  [rec EXCEPT !.sent = Append(@, payload), !.post_attempt = 0, !.pc = "post"]

\* search_cbp501_phase3() lines 79-94 and main.py:110-138: classify, compare
\* with the last status, select the notification and build its payload
Decide(p) ==
  /\ proc[p].pc = "decide"
  /\ LET res == SearchResultOf[proc[p].found_items]
         current == current_status_of(res.found)
         changed == status_changed_of(current, proc[p].last_status)
         report == should_report_of(proc[p].execution_counter,
                                    proc[p].status_report_interval)
         r == [proc[p] EXCEPT
                 !.cbp501_found = res.found,
                 !.cbp501_details = res.details,
                 !.current_status = current,
                 !.status_changed = changed,
                 !.should_report = report,
                 !.decided = TRUE]
         choice == select_notification(res.found, changed, report)
     IN  CASE choice = "found" ->
                IF found_payload_raises(res.details)
                  THEN Set(p, Returned(r, FALSE))
                  ELSE Set(p, Submit(r, found_payload(res.details)))
           [] choice = "change" ->
                Set(p, Submit(r, status_change_payload(FALSE, r.execution_counter)))
           [] choice = "report" ->
                Set(p, Submit(r, status_report_payload(res.found, res.details,
                                                       r.execution_counter)))
           [] OTHER ->
                Set(p, [r EXCEPT !.pc = "save_status"])
  /\ UNCHANGED <<counter_file, status_file, runs, wh, cl, ex, rq>>

\* _send_webhook(): one POST and what the loop does with its response
Post(p) ==
  /\ proc[p].pc = "post"
  /\ \E resp \in Responses :
       LET it == send_webhook_iter(proc[p].post_attempt, resp)
       IN  IF it.returned
             THEN Set(p, Returned([proc[p] EXCEPT !.post_attempt = @ + 1],
                                  it.result))
             ELSE Set(p, [proc[p] EXCEPT !.post_attempt = @ + 1])
  /\ UNCHANGED <<counter_file, status_file, runs, wh, cl, ex, rq>>

\* main.py:141-163: save_cbp501_status(current_status), normal end
SaveStatus(p) ==
  /\ proc[p].pc = "save_status"
  /\ status_file' = save_cbp501_status(proc[p].current_status)
  /\ Set(p, [proc[p] EXCEPT !.pc = "exit", !.exit_code = 0])
  /\ UNCHANGED <<counter_file, runs, wh, cl, ex, rq>>

\* mutant: the handler persists not-found before it notifies
ExceptHandler_resets_status(p) ==
  /\ proc[p].pc = "except"
  /\ status_file' = save_cbp501_status(NOT_FOUND)
  /\ Set(p, Submit([proc[p] EXCEPT !.in_handler = TRUE],
                   error_payload(proc[p].execution_counter)))
  /\ UNCHANGED <<counter_file, runs, wh, cl, ex, rq>>

\* main.py:147-157: the top-level handler builds the error notification
ExceptHandler(p) ==
  /\ proc[p].pc = "except"
  /\ Set(p, Submit([proc[p] EXCEPT !.in_handler = TRUE],
                   error_payload(proc[p].execution_counter)))
  /\ UNCHANGED <<counter_file, status_file, runs, wh, cl, ex, rq>>

Step(p) ==
  \/ Start(p)
  \/ LoadCounter(p)
  \/ SaveCounter(p)
  \/ LoadStatus(p)
  \/ NewScraper(p)
  \/ ScraperRaises(p)
  \/ RequestOk(p)
  \/ RequestFails(p)
  \/ Decide(p)
  \/ Post(p)
  \/ SaveStatus(p)
  \/ ExceptHandler(p)

\* invocations one after the other (the scheduler starts one per interval)
Next == Step(1)

Spec == Init /\ [][Next]_vars

TypeOK ==
  /\ runs \in 0..MaxRuns
  /\ \A p \in Procs : proc[p].exit_code \in {0, 1}

\* runs one after the other on a machine with no state files yet
FreshInit ==
  /\ Init
  /\ counter_file = Absent
  /\ status_file = Absent

FreshSpec == FreshInit /\ [][Next]_vars

\* ------------------------------------------- two invocations that overlap
\* Nothing in main() keeps a second invocation from starting while the first
\* one runs: the two invocations interleave step by step, each running once.
Pair == {1, 2}

\* The environment the overlap is studied in: the report interval is unset,
\* the news page either has nothing or announces the trial, the trial page
\* adds nothing, a source fails at most once and never the first, and a POST
\* is answered at once with 204 or with an error status.
DiscoveryPage == <<Element("a", "CBP501 Phase III trial started", "/en/news/3")>>

OverlapEnv(rec) ==
  /\ rec.status_report_interval \in {0, load_environment(None, None)}
  /\ rec.found_items \in {<<>>, ItemsOf[DiscoveryPage][1]}
  /\ rec.requests[1] <= 1
  /\ rec.requests[NumSources] <= 2
  /\ rec.pc = "post" => rec.post_attempt = 0

\* a step of an invocation that has not ended, in that environment
Overlapping(p, step) ==
  /\ proc[p].pc # "exit"
  /\ step
  /\ OverlapEnv(proc'[p])

OverlapNext ==
  \E p \in Pair :
     \/ Overlapping(p, Start(p))
     \/ Overlapping(p, LoadCounter(p))
     \/ Overlapping(p, SaveCounter(p))
     \/ Overlapping(p, LoadStatus(p))
     \/ Overlapping(p, NewScraper(p))
     \/ Overlapping(p, ScraperRaises(p))
     \/ Overlapping(p, RequestOk(p))
     \/ Overlapping(p, RequestFails(p))
     \/ Overlapping(p, Decide(p))
     \/ Overlapping(p, Post(p))
     \/ Overlapping(p, SaveStatus(p))
     \/ Overlapping(p, ExceptHandler(p))

OverlapSpec == Init /\ [][OverlapNext]_vars

\* ------------------------------------------ _send_webhook on its own
SamplePayloads ==
  {found_payload(SearchResultOf[items].details) :
     items \in {f \in FoundItemLists : SearchResultOf[f].found}}
  \cup {status_report_payload(SearchResultOf[items].found,
                              SearchResultOf[items].details, 4) :
          items \in FoundItemLists}
  \cup {status_change_payload(FALSE, 2), error_payload(1),
        connection_test_payload}

WebhookInit ==
  /\ counter_file = Absent
  /\ status_file = Absent
  /\ runs = 0
  /\ proc = [p \in Procs |-> Idle]
  /\ wh \in {Call(payload) : payload \in SamplePayloads}
  /\ cl = NoText
  /\ ex = NoDocument
  /\ rq = NoFetch

\* one iteration of the loop: the POST is answered by resp
WebhookPost ==
  /\ wh.pc = "post"
  /\ \E resp \in Responses :
       LET it == send_webhook_iter(wh.attempt, resp)
       IN  wh' = [wh EXCEPT
                    !.responses = Append(@, resp),
                    !.sleeps = @ \o it.sleep,
                    !.attempt = @ + 1,
                    !.result = it.result,
                    !.pc = IF it.returned THEN "returned" ELSE "post"]
  /\ UNCHANGED <<counter_file, status_file, runs, proc, cl, ex, rq>>

WebhookNext == WebhookPost

WebhookSpec == WebhookInit /\ [][WebhookNext]_vars

\* ------------------------------------------- _make_request on its own
\* what session.get answers: a status, or an exception of the transport
GetResponses == {"200", "404", "500", "Timeout", "ConnectionError"}

\* response.raise_for_status() raises HTTPError for a 4xx or 5xx status;
\* the transport exceptions are raised by session.get itself
get_raises(resp) == resp # "200"

FetchInit ==
  /\ counter_file = Absent
  /\ status_file = Absent
  /\ runs = 0
  /\ proc = [p \in Procs |-> Idle]
  /\ wh = NoCall
  /\ cl = NoText
  /\ ex = NoDocument
  /\ rq \in {Fetch(search_urls[s]) : s \in Sources}

\* one iteration of the loop: the GET is answered by resp
FetchGet ==
  /\ rq.pc = "get"
  /\ \E resp \in GetResponses :
       IF get_raises(resp)
         THEN LET it == make_request_iter(rq.attempt)
              IN  rq' = [rq EXCEPT
                           !.responses = Append(@, resp),
                           !.sleeps = @ \o it.sleep,
                           !.attempt = @ + 1,
                           !.pc = IF it.raised THEN "raised" ELSE "get"]
         ELSE rq' = [rq EXCEPT
                       !.responses = Append(@, resp),
                       !.response = resp,
                       !.pc = "returned"]
  /\ UNCHANGED <<counter_file, status_file, runs, proc, wh, cl, ex>>

FetchNext == FetchGet

FetchSpec == FetchInit /\ [][FetchNext]_vars

\* ------------------------------------------------ the classifier on its own
\* the element texts: a spelling of the drug name (or none), a phase-3 phrase
\* (or none) and a trial-start phrase (or none), with or without filler words
VariantFragments == {"", "CBP501", "cbp-501", "Cbp 501", "CB-P501", "cb p501"}
PhaseFragments == {"", "Phase III", "pivotal", "P3"}
StartFragments == {"", "started", "Enrollment", "first patient"}

Compose(variant, phase, start, filler) ==
  IF filler
    THEN "EMA: " \o variant \o " study " \o phase \o " data " \o start \o " news"
    ELSE Strip(variant \o " " \o phase \o " " \o start)

ClassifyInit ==
  /\ counter_file = Absent
  /\ status_file = Absent
  /\ runs = 0
  /\ proc = [p \in Procs |-> Idle]
  /\ wh = NoCall
  /\ ex = NoDocument
  /\ rq = NoFetch
  /\ \E tag \in {"a", "p"}, variant \in VariantFragments,
        phase \in PhaseFragments, start \in StartFragments,
        filler \in BOOLEAN :
       cl = Text(tag, variant, phase, start,
                 Compose(variant, phase, start, filler))

\* _find_cbp501_content on the page that has this one element
Collect ==
  /\ cl.pc = "text"
  /\ cl' = [cl EXCEPT
              !.pc = "collected",
              !.contains = contains_cbp501(cl.text),
              !.items = find_cbp501_content(
                          <<Element(cl.tag, cl.text, "/en/news/9")>>,
                          search_urls[1])]
  /\ UNCHANGED <<counter_file, status_file, runs, proc, wh, ex, rq>>

\* search_cbp501_phase3, lines 79-94, on what was collected
Classify ==
  /\ cl.pc = "collected"
  /\ cl' = [cl EXCEPT
              !.pc = "classified",
              !.found = search_result(cl.items).found,
              !.details = search_result(cl.items).details]
  /\ UNCHANGED <<counter_file, status_file, runs, proc, wh, ex, rq>>

ClassifyNext == Collect \/ Classify

ClassifySpec == ClassifyInit /\ [][ClassifyNext]_vars

\* --------------------------- EMAScraper._extract_news_items on its own
\* A document is the sequence of its anchors and headings in document order.
\* An anchor carries its text, its href ("" when it has none) and whether it
\* lies inside the view-content container; an anchor inside a heading is the
\* element right after the heading.
Anchor(text, href, in_view) ==
  [tag |-> "a", text |-> text, href |-> href, in_view |-> in_view]

Heading(text) ==
  [tag |-> "h", text |-> text, href |-> "", in_view |-> FALSE]

MaxDocLen == 3        \* free elements of a document
MaxListings == 4      \* distinct news links leading the container

MinYieldHeadings == 5     \* len(news_items) < 5
MinYieldBroad == 3        \* len(news_items) < 3
MaxHeadings == 15         \* headings[:15]
MaxLinks == 50            \* all_links[:50]
HeadingIdx == 1000        \* idx + 1000
GenericIdx == 2000        \* idx + 2000
MinTitleLen == 10         \* len(title) < 10
MinLinkTextLen == 10      \* len(text) > 10
MinGenericTitleLen == 15  \* len(title) < 15

\* the i-th of the distinct news links a listing page leads with
Listing(i) ==
  Anchor("Press release number " \o Str(i), "/en/news/release-" \o Str(i), TRUE)

Listings(n) == [i \in 1..n |-> Listing(i)]

ElementPool ==
  { Anchor("EMA approves new medicine", "/en/news/a", TRUE),
    Anchor("New medicine approved", base_url \o "/en/news/a", TRUE),
    Anchor("EMA approves new medicine", "/en/news/a", FALSE),
    Anchor("About the agency", "/en/about", TRUE),
    Anchor("More", "/en/news/b", TRUE),
    Anchor("CHMP update", "/en/news/c", FALSE),
    Anchor("Skip to main content", "", FALSE),
    Heading("CHMP meeting highlights"),
    Heading("News") }

Documents ==
  { Listings(n) \o rest :
      n \in 0..MaxListings,
      rest \in UNION {[1..k -> ElementPool] : k \in 0..MaxDocLen} }

\* the test of lines 73 and 115 on an href
is_news_href(href) == In("/news/", href) \/ In("/en/news/", href)

\* An item is its id, title and link. The id is the strategy's prefix, the
\* index and hash(title + full_url), the hash standing for its argument; date,
\* description and is_approval_related are read from the surrounding text
\* and decide nothing in the extraction, two items with the same id having
\* been parsed from the same element.
NewsItem(prefix, idx, title, full_url) ==
  [id |-> <<prefix, idx, title \o full_url>>, title |-> title,
   link |-> full_url]

\* _parse_link_item(link, idx): the item in a sequence, <<>> for None
parse_link_item(link, idx) ==
  LET title == Strip(link.text)
  IN  IF title = "" \/ Len(title) < MinTitleLen THEN <<>>
      ELSE <<NewsItem("link", idx, title, urljoin(base_url, link.href))>>

\* _parse_heading_item(heading, link, idx)
parse_heading_item(heading, link, idx) ==
  LET title == Strip(heading.text)
  IN  IF title = "" \/ Len(title) < MinTitleLen THEN <<>>
      ELSE <<NewsItem("heading", idx, title, urljoin(base_url, link.href))>>

\* _parse_generic_link(link, idx)
parse_generic_link(link, idx) ==
  LET title == Strip(link.text)
  IN  IF title = "" \/ Len(title) < MinGenericTitleLen THEN <<>>
      ELSE <<NewsItem("generic", idx, title, urljoin(base_url, link.href))>>

First(seq, n) == SubSeq(seq, 1, IF Len(seq) < n THEN Len(seq) ELSE n)

\* soup.find('div', class_=re.compile(r'view-content')): what the container holds
view_content(doc) == SelectSeq(doc, LAMBDA e : e.in_view)

\* find_all('a', href=True)
links_with_href(elements) ==
  SelectSeq(elements, LAMBDA e : e.tag = "a" /\ e.href # "")

\* strategy 1, the loop of lines 66-85, from the idx-th link on (idx from 1)
RECURSIVE scoped_container(_, _, _, _)
scoped_container(links, idx, processed_urls, news_items) ==
  IF idx > Len(links) THEN news_items
  ELSE LET link == links[idx]
           href == link.href
       IN  IF href = "" \/ href \in processed_urls
             THEN scoped_container(links, idx + 1, processed_urls, news_items)
           ELSE IF ~In("/news/", href) /\ ~In("/en/news/", href)
             THEN scoped_container(links, idx + 1, processed_urls, news_items)
           ELSE scoped_container(links, idx + 1, processed_urls \cup {href},
                                 news_items \o parse_link_item(link, idx - 1))

\* the positions of the h2, h3 and h4 elements
headings_of(doc) ==
  SelectSeq([i \in 1..Len(doc) |-> i], LAMBDA i : doc[i].tag = "h")

\* heading.find('a') or heading.find_next('a'): the position of the first
\* anchor after the heading, 0 when there is none
find_next_a(doc, pos) ==
  LET after == {j \in (pos + 1)..Len(doc) : doc[j].tag = "a"}
  IN  IF after = {} THEN 0
      ELSE CHOOSE j \in after : \A k \in after : j <= k

\* item not in news_items (line 98)
heading_is_new(item, news_items) ==
  \A i \in 1..Len(news_items) : news_items[i] # item

\* strategy 2, the loop of lines 92-102
RECURSIVE heading_based(_, _, _, _)
heading_based(doc, headings, idx, news_items) ==
  IF idx > Len(headings) THEN news_items
  ELSE LET heading == doc[headings[idx]]
           at == find_next_a(doc, headings[idx])
           item == IF at = 0 \/ doc[at].href = "" THEN <<>>
                   ELSE parse_heading_item(heading, doc[at],
                                           (idx - 1) + HeadingIdx)
       IN  IF item # <<>> /\ heading_is_new(item[1], news_items)
             THEN heading_based(doc, headings, idx + 1, news_items \o item)
             ELSE heading_based(doc, headings, idx + 1, news_items)

\* strategy 3, the loop of lines 109-124
RECURSIVE broad_link(_, _, _)
broad_link(links, idx, news_items) ==
  IF idx > Len(links) THEN news_items
  ELSE LET link == links[idx]
           href == link.href
           text == Strip(link.text)
       IN  IF /\ is_news_href(href)
              /\ Len(text) > MinLinkTextLen
              /\ ~\E i \in 1..Len(news_items) :
                    news_items[i].link = urljoin(base_url, href)
             THEN broad_link(links, idx + 1,
                    news_items \o parse_generic_link(link, (idx - 1) + GenericIdx))
             ELSE broad_link(links, idx + 1, news_items)

ExtractInit ==
  /\ counter_file = Absent
  /\ status_file = Absent
  /\ runs = 0
  /\ proc = [p \in Procs |-> Idle]
  /\ wh = NoCall
  /\ cl = NoText
  /\ ex \in {Document(doc) : doc \in Documents}
  /\ rq = NoFetch

\* lines 58-85: the links of the view-content container, when there is one
ScopedContainer ==
  /\ ex.pc = "links"
  /\ ex' = IF view_content(ex.doc) # <<>>
             THEN [ex EXCEPT
                     !.pc = "headings",
                     !.ran = Append(@, "scoped"),
                     !.news_items =
                        scoped_container(links_with_href(view_content(ex.doc)),
                                         1, {}, @)]
             ELSE [ex EXCEPT !.pc = "headings"]
  /\ UNCHANGED <<counter_file, status_file, runs, proc, wh, cl, rq>>

\* lines 88-102: the headings, when fewer than 5 items were collected
HeadingBased ==
  /\ ex.pc = "headings"
  /\ ex' = IF Len(ex.news_items) < MinYieldHeadings
             THEN [ex EXCEPT
                     !.pc = "broad",
                     !.ran = Append(@, "heading"),
                     !.news_items =
                        heading_based(ex.doc,
                                      First(headings_of(ex.doc), MaxHeadings),
                                      1, @)]
             ELSE [ex EXCEPT !.pc = "broad"]
  /\ UNCHANGED <<counter_file, status_file, runs, proc, wh, cl, rq>>

\* mutant: the broad scan runs below the yield of the heading strategy
BroadLink_yield_five ==
  /\ ex.pc = "broad"
  /\ ex' = IF Len(ex.news_items) < MinYieldHeadings
             THEN [ex EXCEPT
                     !.pc = "returned",
                     !.ran = Append(@, "broad"),
                     !.news_items =
                        broad_link(First(links_with_href(ex.doc), MaxLinks),
                                   1, @)]
             ELSE [ex EXCEPT !.pc = "returned"]
  /\ UNCHANGED <<counter_file, status_file, runs, proc, wh, cl, rq>>

\* lines 105-131: every link, when fewer than 3 items were collected
BroadLink ==
  /\ ex.pc = "broad"
  /\ ex' = IF Len(ex.news_items) < MinYieldBroad
             THEN [ex EXCEPT
                     !.pc = "returned",
                     !.ran = Append(@, "broad"),
                     !.news_items =
                        broad_link(First(links_with_href(ex.doc), MaxLinks),
                                   1, @)]
             ELSE [ex EXCEPT !.pc = "returned"]
  /\ UNCHANGED <<counter_file, status_file, runs, proc, wh, cl, rq>>

ExtractNext == ScopedContainer \/ HeadingBased \/ BroadLink

ExtractSpec == ExtractInit /\ [][ExtractNext]_vars

\* ================================================================ claims
Exited(p) == proc[p].pc = "exit"
Kinds(p) == [i \in 1..Len(proc[p].sent) |-> proc[p].sent[i].kind]

\* the kind the priority Discovery > StatusChange > PeriodicReport selects
ByPriority(p) ==
  IF proc[p].cbp501_found /\ proc[p].status_changed THEN <<"Discovery">>
  ELSE IF proc[p].status_changed THEN <<"StatusChange">>
  ELSE IF proc[p].should_report THEN <<"PeriodicReport">>
  ELSE <<>>

\* C1: a run sends at most one notification, and a run that reaches the
\* selection sends exactly the kind the priority Discovery > StatusChange >
\* PeriodicReport > none selects
C1_OneNotificationByPriority ==
  \A p \in Procs :
    /\ Len(proc[p].sent) <= 1
    /\ (Exited(p) /\ proc[p].decided) => Kinds(p) = ByPriority(p)

C1_Witness ==
  \E p \in Procs :
    /\ Exited(p) /\ proc[p].decided
    /\ proc[p].status_changed /\ proc[p].should_report
    /\ Kinds(p) = <<"StatusChange">>

\* C2 (as stated): every invocation that has ended has raised the persisted
\* execution counter by exactly one
C2_EveryInvocationIncrements ==
  \A p \in Procs :
    Exited(p) => CounterValue(counter_file) = proc[p].counter_at_start + 1

\* C2 (amended): every invocation whose configuration loaded raises the
\* persisted execution counter by exactly one before it reads the status,
\* and the counter keeps that value to the end of the run, whether the run
\* ends normally or through the top-level error handler
C2_ConfiguredInvocationIncrements ==
  \A p \in Procs :
    (proc[p].config_ok /\ proc[p].pc \notin {"load_counter", "save_counter"})
      => CounterValue(counter_file) = proc[p].counter_at_start + 1

C2_Witness ==
  \E p \in Procs :
    /\ Exited(p) /\ proc[p].config_ok /\ proc[p].exit_code = 1
    /\ proc[p].counter_at_start = 7
    /\ counter_file = "8"

\* C3: from one state to the next the persisted execution counter never
\* decreases
C3_CounterNeverDecreases ==
  [][CounterValue(counter_file') >= CounterValue(counter_file)]_vars

C3_Witness ==
  /\ runs = 3
  /\ \E p \in Procs : Exited(p) /\ proc[p].counter_at_start = 9
  /\ counter_file = "10"

\* C4 (as stated): a first-ever run with no keyword hit sends exactly one
\* periodic report, persists not_found and exits with code 0
C4_FirstRunBaseline ==
  \A p \in Procs :
    (Exited(p) /\ proc[p].first_run /\ proc[p].decided
       /\ proc[p].found_items = <<>>)
      => /\ Kinds(p) = <<"PeriodicReport">>
         /\ status_file = NOT_FOUND
         /\ proc[p].exit_code = 0

C6_PeriodicDueIffMultiple ==
  \A p \in Procs :
    proc[p].decided =>
      (proc[p].should_report <=>
         \E m \in 1..proc[p].execution_counter :
            proc[p].execution_counter = m * proc[p].status_report_interval)

C6_Witness ==
  \E p \in Procs :
    /\ proc[p].decided /\ proc[p].should_report
    /\ proc[p].status_report_interval = 4
    /\ proc[p].execution_counter = 8

C6_WitnessNotDue ==
  \E p \in Procs :
    /\ proc[p].decided /\ ~proc[p].should_report
    /\ proc[p].status_report_interval = 4
    /\ proc[p].execution_counter = 10

\* C7: the status-changed flag of a run is true iff the status computed in
\* the run differs from the status the run loaded from the status file
C7_StatusChangedIffDiffers ==
  \A p \in Procs :
    proc[p].decided =>
      /\ proc[p].status_changed <=>
           (current_status_of(proc[p].cbp501_found)
              # load_last_found_status(proc[p].status_at_start))
      /\ (proc[p].last_status = NOT_FOUND /\ proc[p].current_status = FOUND)
           => proc[p].status_changed
      /\ proc[p].last_status = proc[p].current_status
           => ~proc[p].status_changed

C7_Witness ==
  \E p \in Procs :
    /\ proc[p].decided /\ proc[p].status_changed
    /\ proc[p].last_status = NOT_FOUND /\ proc[p].current_status = FOUND

C7_WitnessEqual ==
  \E p \in Procs :
    /\ proc[p].decided /\ ~proc[p].status_changed
    /\ proc[p].last_status = FOUND /\ proc[p].current_status = FOUND

\* C8: a send answered 429, 429, 204 returns true after exactly 3 POSTs and
\* two waits of 5 units, one after each 429
C8_TwoRateLimitsThenSuccess ==
  /\ wh.responses = <<"429", "429">> => wh.pc = "post"
  /\ wh.responses = <<"429", "429", "204">>
       => /\ wh.pc = "returned" /\ wh.result = TRUE
          /\ wh.attempt = 3
          /\ wh.sleeps = <<RateLimitWait, RateLimitWait>>

C8_Witness ==
  wh.pc = "returned" /\ wh.responses = <<"429", "429", "204">>

\* C9: a POST answered by a status other than 204 and 429 ends the send at
\* once with false: the send has returned, and no wait followed that answer
C9_OtherStatusFailsAtOnce ==
  (wh.responses # <<>>
     /\ wh.responses[Len(wh.responses)] \notin {"204", "429", "RequestException"})
    => /\ wh.pc = "returned" /\ wh.result = FALSE
       /\ wh.attempt = Len(wh.responses)
       /\ Len(wh.sleeps) = Len(wh.responses) - 1

C9_Witness ==
  /\ wh.pc = "returned"
  /\ wh.responses = <<"429", "500">>
  /\ wh.sleeps = <<RateLimitWait>>

C11_ErrorPathNotifiesOnceAndFails ==
  \A p \in Procs :
    /\ proc[p].pc = "except" => proc[p].sent = <<>>
    /\ proc[p].in_handler =>
         /\ Kinds(p) = <<"Error">>
         /\ proc[p].pc \in {"post", "exit"}
         /\ ~proc[p].decided
         /\ CounterValue(counter_file) = proc[p].counter_at_start + 1
         /\ Exited(p) => /\ proc[p].exit_code = 1
                         /\ Len(proc[p].send_results) = 1

C11_Witness ==
  \E p \in Procs :
    /\ Exited(p) /\ proc[p].in_handler
    /\ proc[p].send_results = <<FALSE>>
    /\ proc[p].post_attempt = max_retries
    /\ proc[p].exit_code = 1

\* C12: an invocation without a webhook URL ends with exit code 1 and has
\* changed neither state file, fetched no source and sent no notification
C12_NoWebhookAbortsBeforeWork ==
  \A p \in Procs :
    (proc[p].pc # "idle" /\ proc[p].webhook \in {None, ""})
      => /\ Exited(p) /\ proc[p].exit_code = 1
         /\ ~proc[p].config_ok
         /\ CounterValue(counter_file) = proc[p].counter_at_start
         /\ status_file = proc[p].status_at_start
         /\ \A s \in Sources : proc[p].requests[s] = 0
         /\ proc[p].sent = <<>>

C12_Witness ==
  \E p \in Procs :
    /\ Exited(p) /\ proc[p].webhook = None
    /\ runs = 2 /\ counter_file = "8" /\ status_file = NOT_FOUND

C13_WitnessNoNotification ==
  \E p \in Procs :
    /\ Exited(p) /\ proc[p].decided
    /\ proc[p].sent = <<>> /\ proc[p].exit_code = 0

\* C14: what save_cbp501_status wrote for a status in {found, not_found},
\* load_last_found_status reads back as that status: at the end of the run
\* that saved it, and as the last status of the next run
C14_StatusRoundTrip ==
  /\ \A s \in {FOUND, NOT_FOUND} :
       load_last_found_status(save_cbp501_status(s)) = s
  /\ \A p \in Procs :
       /\ (Exited(p) /\ proc[p].decided)
            => /\ proc[p].current_status \in {FOUND, NOT_FOUND}
               /\ load_last_found_status(status_file) = proc[p].current_status
       /\ (proc[p].last_status # None
             /\ proc[p].status_at_start \in {FOUND, NOT_FOUND})
            => proc[p].last_status = proc[p].status_at_start

C14_Witness ==
  \E p \in Procs :
    /\ runs = 2
    /\ proc[p].pc = "new_scraper"
    /\ proc[p].status_at_start = FOUND
    /\ proc[p].last_status = FOUND

\* C15 (as stated): the last status a run works with is one of the two
\* tokens found / not_found, whatever the status file holds
C15_LastStatusIsToken ==
  \A p \in Procs :
    proc[p].last_status # None => proc[p].last_status \in {FOUND, NOT_FOUND}

C16_WitnessRoutine ==
  /\ wh.pc = "returned" /\ wh.result = TRUE
  /\ wh.payload.kind = "ConnectionTest"
  /\ wh.payload.content # None

\* which keyword lists the text of the element was written to match
BothSets == cl.phase # "" /\ cl.start # ""
OneSet == (cl.phase # "") # (cl.start # "")
NoSet == cl.phase = "" /\ cl.start = ""

\* C17: a collected item is reported with confidence high iff its text
\* matches both keyword lists, with medium when it matches exactly one, and
\* is not reported as a match when it matches neither
C17_ConfidenceByKeywordSets ==
  (cl.pc = "classified" /\ cl.items # <<>>) =>
    /\ BothSets => cl.found /\ cl.details[1].confidence = "high"
    /\ OneSet => cl.found /\ cl.details[1].confidence = "medium"
    /\ NoSet => ~cl.found
    /\ cl.found =>
         /\ Len(cl.details) = 1
         /\ cl.details[1].confidence = "high" <=> BothSets
         /\ cl.details[1].phase3_keywords # <<>> <=> cl.phase # ""
         /\ cl.details[1].start_keywords # <<>> <=> cl.start # ""

C17_Witness ==
  /\ cl.pc = "classified" /\ cl.found
  /\ cl.phase = "Phase III" /\ cl.start = ""
  /\ cl.details[1].confidence = "medium"

C17_WitnessHigh ==
  /\ cl.pc = "classified" /\ cl.found
  /\ cl.phase = "P3" /\ cl.start = "Enrollment"
  /\ cl.details[1].confidence = "high"

\* C18 (as stated): a text that contains a spelling variant of the drug name
\* makes the search report found
C18_VariantImpliesFound ==
  (cl.pc = "classified" /\ cl.variant # "") => cl.found

\* C18 (amended): a text that contains a spelling variant is recognised by
\* _contains_cbp501 and, as a link text or a text element of more than 20
\* characters, collected as an item; the search reports found exactly when
\* the collected text also matches a phase-3 or a trial-start keyword
C18_VariantIsCollected ==
  (cl.pc \in {"collected", "classified"} /\ cl.variant # "") =>
    /\ cl.contains
    /\ cl.items # <<>> <=> (cl.tag = "a" \/ Len(cl.text) > MinTextLen)
    /\ cl.pc = "classified" =>
         (cl.found <=> (cl.items # <<>> /\ ~NoSet))

C18_Witness ==
  /\ cl.pc = "classified"
  /\ cl.variant = "CB-P501" /\ NoSet
  /\ cl.contains /\ cl.items # <<>> /\ ~cl.found

\* C19: a text with neither a spelling variant nor a keyword gives no item,
\* the result not found, and no matched keyword
C19_NoKeywordNoMatch ==
  (cl.pc \in {"collected", "classified"} /\ cl.variant = "" /\ NoSet) =>
    /\ ~cl.contains
    /\ cl.items = <<>>
    /\ ~cl.found /\ cl.details = <<>>
    /\ KeywordsIn(phase3_keywords, Lower(cl.text)) = <<>>
    /\ KeywordsIn(trial_start_keywords, Lower(cl.text)) = <<>>

C19_Witness ==
  /\ cl.pc = "classified"
  /\ cl.variant = "" /\ NoSet
  /\ cl.text = "EMA:  study  data  news"
  /\ ~cl.found

\* C20: the list the extractor returns holds at most one item per normalized
\* target URL, whichever of the three strategies emitted the items
C20_OneItemPerTargetURL ==
  ex.pc = "returned" =>
    \A i, j \in 1..Len(ex.news_items) :
       ex.news_items[i].link = ex.news_items[j].link => i = j

\* the strategies in the order of the code, and every selection of them
StrategyOrder == <<"scoped", "heading", "broad">>

InOrder(ran) ==
  \E keep \in SUBSET (1..3) :
     ran = SelectSeq(StrategyOrder,
                     LAMBDA t : \E i \in keep : StrategyOrder[i] = t)

Ran(strategy, ran) == \E i \in 1..Len(ran) : ran[i] = strategy

\* C21 as stated: the strategies run in the order scoped-container,
\* heading-based, broad-link, and a later strategy runs iff fewer than 5
\* items were collected before it
C21_StopAtYieldOfFive ==
  [][/\ InOrder(ex'.ran)
     /\ ex.pc = "headings" =>
          (Ran("heading", ex'.ran) <=> Len(ex.news_items) < MinYieldHeadings)
     /\ ex.pc = "broad" =>
          (Ran("broad", ex'.ran) <=> Len(ex.news_items) < MinYieldHeadings)]_vars

\* C21 amended: the strategies run in the order scoped-container,
\* heading-based, broad-link; the heading strategy runs iff fewer than 5
\* items were collected before it, the broad scan iff fewer than 3; a
\* strategy that does not run adds no item
C21_StopAtYieldOfEachStrategy ==
  [][/\ InOrder(ex'.ran)
     /\ ex.pc = "links" =>
          (Ran("scoped", ex'.ran) <=> view_content(ex.doc) # <<>>)
     /\ ex.pc = "headings" =>
          (Ran("heading", ex'.ran) <=> Len(ex.news_items) < MinYieldHeadings)
     /\ ex.pc = "broad" =>
          (Ran("broad", ex'.ran) <=> Len(ex.news_items) < MinYieldBroad)
     /\ ex'.ran = ex.ran => ex'.news_items = ex.news_items]_vars

C21_Witness ==
  /\ ex.pc = "returned"
  /\ ex.ran = <<"scoped", "heading">>
  /\ Len(ex.news_items) = MinYieldBroad

\* the invocation has written its counter
SavedCounter(p) ==
  proc[p].config_ok /\ proc[p].pc \notin {"load_counter", "save_counter"}

\* both invocations read the same counter and the same last status
ReadTheSame(p, q) ==
  /\ p # q
  /\ proc[p].decided /\ proc[q].decided
  /\ proc[p].execution_counter = proc[q].execution_counter
  /\ proc[p].last_status = proc[q].last_status

\* C22: two invocations that read the same execution counter leave the
\* counter advanced by one, not two; and when they also read the same last
\* status, other than found, and both find the match, both send the
\* Discovery notification
C22_OverlapLosesUpdateAndRepeatsDiscovery ==
  \A p, q \in Pair :
     /\ (/\ p # q /\ SavedCounter(p) /\ SavedCounter(q)
         /\ proc[p].execution_counter = proc[q].execution_counter)
        => /\ counter_file = save_execution_counter(proc[p].execution_counter)
           /\ CounterValue(counter_file) = proc[p].counter_at_start + 1
           /\ proc[q].counter_at_start = proc[p].counter_at_start
     /\ (/\ ReadTheSame(p, q)
         /\ proc[p].last_status # FOUND
         /\ proc[p].cbp501_found /\ proc[q].cbp501_found
         /\ Exited(p) /\ Exited(q))
        => /\ Kinds(p) = <<"Discovery">>
           /\ proc[q].sent = proc[p].sent

C22_Witness ==
  /\ ReadTheSame(1, 2)
  /\ Exited(1) /\ Exited(2)
  /\ proc[1].last_status = NOT_FOUND
  /\ Kinds(1) = <<"Discovery">> /\ proc[2].sent = proc[1].sent
  /\ proc[1].send_results = <<TRUE>> /\ proc[2].send_results = <<TRUE>>
  /\ proc[1].counter_at_start = 7 /\ proc[2].counter_at_start = 7
  /\ counter_file = save_execution_counter(8)

\* the GETs of the call that failed
Failures(call) ==
  SelectSeq(call.responses, LAMBDA resp : get_raises(resp))

\* C23: a fetch makes at most 3 requests, waits 1 and 2 units after the 1st
\* and the 2nd failed attempt, returns the response of the first successful
\* attempt, and raises after the 3rd failure without a further wait
C23_FetchBacksOffAndGivesUp ==
  /\ Len(rq.responses) <= 3
  /\ rq.sleeps = SubSeq(<<1, 2>>, 1,
                        IF Len(Failures(rq)) < 2 THEN Len(Failures(rq)) ELSE 2)
  /\ rq.pc = "returned" <=>
       (rq.responses # <<>> /\ ~get_raises(rq.responses[Len(rq.responses)]))
  /\ rq.pc = "returned" =>
       /\ Len(Failures(rq)) = Len(rq.responses) - 1
       /\ rq.response = rq.responses[Len(rq.responses)]
  /\ rq.pc = "raised" <=> Len(Failures(rq)) = 3

C23_Witness ==
  /\ rq.pc = "raised"
  /\ rq.responses = <<"Timeout", "500", "ConnectionError">>
  /\ rq.sleeps = <<1, 2>>

C23_WitnessSuccess ==
  /\ rq.pc = "returned"
  /\ rq.responses = <<"404", "Timeout", "200">>
  /\ rq.sleeps = <<1, 2>>

\* the network failures among the first i POSTs of the send
NetworkFailures(i) ==
  Len(SelectSeq(SubSeq(wh.responses, 1, i),
                LAMBDA resp : resp = "RequestException"))

\* C24 as stated: the n-th network failure of a send is followed by a wait
\* of 2^(n-1) units, whatever was answered before it, and a network error
\* on the last allowed attempt returns false
C24_BackoffCountsNetworkFailures ==
  \A i \in 1..Len(wh.responses) :
     wh.responses[i] = "RequestException" =>
       IF i < max_retries
         THEN Len(wh.sleeps) >= i /\ wh.sleeps[i] = 2 ^ (NetworkFailures(i) - 1)
         ELSE wh.pc = "returned" /\ ~wh.result /\ Len(wh.sleeps) = i - 1

\* C24 amended: a network failure on the k-th POST of a send (k = 1, 2) is
\* followed by a wait of 2^(k-1) units, the POSTs answered 429 counted in k,
\* and a network error on the last allowed attempt returns false at once
C24_BackoffCountsAttempts ==
  \A i \in 1..Len(wh.responses) :
     wh.responses[i] = "RequestException" =>
       IF i < max_retries
         THEN Len(wh.sleeps) >= i /\ wh.sleeps[i] = 2 ^ (i - 1)
         ELSE wh.pc = "returned" /\ ~wh.result /\ Len(wh.sleeps) = i - 1

C24_Witness ==
  /\ wh.pc = "returned" /\ ~wh.result
  /\ wh.responses = <<"429", "RequestException", "RequestException">>
  /\ wh.sleeps = <<RateLimitWait, 2>>

\* the answers that let the loop of a send go on
Retryable == {"429", "RequestException"}

\* C26: a send makes at most 3 POSTs whatever the answers, it goes on after
\* a 429 or a network error while attempts are left, and it returns true
\* iff its last POST was answered 204, every earlier one having been
\* answered 429 or a network error
C26_SendTerminatesWithinBudget ==
  /\ Len(wh.responses) <= max_retries
  /\ wh.attempt = Len(wh.responses)
  /\ \A i \in 1..(Len(wh.responses) - 1) : wh.responses[i] \in Retryable
  /\ wh.pc = "post" => Len(wh.responses) < max_retries /\ ~wh.result
  /\ wh.pc = "returned" =>
       /\ wh.responses # <<>>
       /\ wh.result <=> wh.responses[Len(wh.responses)] = "204"
       /\ wh.responses[Len(wh.responses)] \in Retryable
            => Len(wh.responses) = max_retries

C26_Witness ==
  /\ wh.pc = "returned" /\ wh.result
  /\ wh.responses = <<"RequestException", "429", "204">>

C26_WitnessExhausted ==
  /\ wh.pc = "returned" /\ ~wh.result
  /\ wh.responses = <<"429", "RequestException", "429">>
  /\ wh.sleeps = <<RateLimitWait, 2, RateLimitWait>>

\* the run built a Discovery payload from its details
BuiltDiscovery(p) ==
  /\ proc[p].decided /\ proc[p].cbp501_found
  /\ Kinds(p) = <<"Discovery">>

\* the position of the first item of confidence high, 1 when there is none
FirstHigh(details) ==
  IF \E i \in 1..Len(details) : IsHigh(details[i])
    THEN CHOOSE i \in 1..Len(details) :
           IsHigh(details[i]) /\ \A j \in 1..(i - 1) : ~IsHigh(details[j])
    ELSE 1

\* C25 as stated: the Discovery notification shows the first found item,
\* whatever the confidence of the items
C25_DiscoveryShowsFirstItem ==
  \A p \in Procs :
     BuiltDiscovery(p) =>
       proc[p].sent[1].title = proc[p].cbp501_details[1].title

\* C25 amended: the Discovery notification shows the first item of
\* confidence high, and the first item when no item is of confidence high
C25_DiscoveryShowsFirstHighItem ==
  \A p \in Procs :
     BuiltDiscovery(p) =>
       LET shown == proc[p].cbp501_details[FirstHigh(proc[p].cbp501_details)]
       IN  /\ proc[p].sent[1].title = shown.title
           /\ proc[p].sent[1].url =
                 (IF shown.url # "" THEN shown.url ELSE shown.source)

C25_Witness ==
  \E p \in Procs :
     /\ BuiltDiscovery(p)
     /\ FirstHigh(proc[p].cbp501_details) > 1
     /\ proc[p].sent[1].title # proc[p].cbp501_details[1].title

\* C27: a run that ends through the top-level error handler leaves the
\* persisted status as it found it and has advanced the counter; the run
\* started after it finds the same status file
C27_HandlerKeepsStatus ==
  [][\A p \in Procs :
       /\ (proc[p].pc = "except" \/ proc[p].in_handler \/ proc'[p].in_handler)
            => status_file' = status_file
       /\ proc'[p].in_handler
            => /\ status_file' = proc'[p].status_at_start
               /\ counter_file' = save_execution_counter(proc'[p].execution_counter)
               /\ proc'[p].execution_counter = proc'[p].counter_at_start + 1
       /\ (proc[p].in_handler /\ ~proc'[p].in_handler)
            => proc'[p].status_at_start = proc[p].status_at_start]_vars

C27_Witness ==
  /\ Exited(1) /\ proc[1].in_handler /\ proc[1].exit_code = 1
  /\ runs = 2
  /\ status_file = FOUND
  /\ proc[1].status_at_start = FOUND
  /\ CounterValue(counter_file) = proc[1].counter_at_start + 1

\* the status files the program writes
WrittenStatus == {save_cbp501_status(FOUND), save_cbp501_status(NOT_FOUND)}

C28_WitnessDiscovery ==
  /\ Exited(1) /\ proc[1].decided /\ proc[1].cbp501_found
  /\ proc[1].status_at_start = save_cbp501_status(NOT_FOUND)
  /\ runs = 3
  /\ Kinds(1) = <<"Discovery">>

\* C29: the status is written only by a run at its end, after its send (if
\* it sent) has returned; a run that decided ends with its status persisted
\* whatever the send returned; and a run that reads found and finds the
\* match sends no Discovery
C29_StatusSavedAfterSendWhateverResult ==
  [][\A p \in Procs :
       /\ status_file' # status_file =>
            \E q \in Procs :
               /\ proc[q].pc = "save_status"
               /\ Len(proc[q].send_results) = Len(proc[q].sent)
       /\ (proc'[p].decided /\ Exited(p)')
            => /\ proc'[p].exit_code = 0
               /\ status_file' = save_cbp501_status(proc'[p].current_status)
       /\ (proc'[p].decided /\ proc'[p].last_status = FOUND
              /\ proc'[p].cbp501_found)
            => (Kinds(p))' \in {<<>>, <<"PeriodicReport">>}]_vars

C29_Witness ==
  /\ Exited(1) /\ proc[1].decided
  /\ Kinds(1) = <<"Discovery">>
  /\ proc[1].send_results = <<FALSE>>
  /\ status_file = save_cbp501_status(FOUND)

\* C30: when the search reports found, the details are not empty, every
\* item has confidence high or medium and its two keyword lists, one of
\* them not empty; the Discovery payload is built from a non-empty list
C30_FoundHasClassifiedItems ==
  \A p \in Procs :
     (proc[p].decided /\ proc[p].cbp501_found) =>
       /\ proc[p].cbp501_details # <<>>
       /\ ~found_payload_raises(proc[p].cbp501_details)
       /\ \A i \in 1..Len(proc[p].cbp501_details) :
            LET item == proc[p].cbp501_details[i]
            IN  /\ {"confidence", "phase3_keywords", "start_keywords"}
                     \subseteq DOMAIN item
                /\ item.confidence \in {"high", "medium"}
                /\ item.phase3_keywords # <<>> \/ item.start_keywords # <<>>
       /\ \A i \in 1..Len(proc[p].sent) :
            proc[p].sent[i].kind = "Discovery" => proc[p].sent[i].count >= 1

C30_Witness ==
  \E p \in Procs :
     /\ proc[p].decided /\ proc[p].cbp501_found
     /\ Kinds(p) = <<"Discovery">>
     /\ Len(proc[p].cbp501_details) = 2
     /\ proc[p].cbp501_details[1].confidence = "medium"
     /\ proc[p].cbp501_details[2].confidence = "high"

====
